---------------------------- MODULE Spec2Model ----------------------------
(***************************************************************************)
(* Model of src/shell/autoexec.cpp: the generator of the guest's           *)
(* AUTOEXEC.BAT.  Text is modelled byte by byte: a std::string is a        *)
(* sequence of byte values (0..255), so that line endings, case folding,   *)
(* trimming and the byte order of std::map keys are what the code makes    *)
(* them.                                                                   *)
(***************************************************************************)
EXTENDS Integers, Sequences, FiniteSets, TLC

\* ------------------------------------------------------------------------
\* Bounds of the model
\* ------------------------------------------------------------------------

\* Most lines the three buffers hold together in SpecComposer
MaxLines == 3
\* Most lines of one [autoexec] section text
MaxRawLines == 2
\* Most -c options of a command line
MaxCArgs == 2

\* ------------------------------------------------------------------------
\* Constants (autoexec.cpp:40-43, 109-113, 523-524)
\* ------------------------------------------------------------------------

char_lf == 10
char_cr == 13

\* ":: "
comment == <<58, 58, 32>>
\* MSG_Get("AUTOEXEC_BAT_AUTOGENERATED"): "autogenerated"
MSG_AUTOGENERATED ==
    <<97, 117, 116, 111, 103, 101, 110, 101, 114, 97, 116, 101, 100>>
\* MSG_Get("AUTOEXEC_BAT_CONFIG_SECTION"): "from [autoexec] section"
MSG_CONFIG_SECTION ==
    <<102, 114, 111, 109, 32, 91, 97, 117, 116, 111, 101, 120, 101, 99, 93,
      32, 115, 101, 99, 116, 105, 111, 110>>
comment_generated == comment \o MSG_AUTOGENERATED
comment_config_section == comment \o MSG_CONFIG_SECTION

\* "@ECHO OFF"
STR_ECHO_OFF == <<64, 69, 67, 72, 79, 32, 79, 70, 70>>
\* "@SET "
STR_SET == <<64, 83, 69, 84, 32>>
\* "="
STR_EQ == <<61>>
\* "echo", "off"
STR_echo == <<101, 99, 104, 111>>
STR_off == <<111, 102, 102>>

\* enum class Location, in declaration order (the std::map's key order)
GeneratedBeforeAutoexec == "GeneratedBeforeAutoexec"
ConfigFileAutoexec == "ConfigFileAutoexec"
GeneratedAfterAutoexec == "GeneratedAfterAutoexec"
Location == <<GeneratedBeforeAutoexec, ConfigFileAutoexec, GeneratedAfterAutoexec>>

\* ------------------------------------------------------------------------
\* String helpers (string_utils.h, <cctype>)
\* ------------------------------------------------------------------------

isspace(c) == c \in {32, 9, 10, 11, 12, 13}

toupper(c) == IF c >= 97 /\ c <= 122 THEN c - 32 ELSE c
tolower(c) == IF c >= 65 /\ c <= 90 THEN c + 32 ELSE c

RECURSIVE upcase(_)
upcase(s) == IF s = <<>> THEN <<>> ELSE <<toupper(Head(s))>> \o upcase(Tail(s))

RECURSIVE lowcase(_)
lowcase(s) == IF s = <<>> THEN <<>> ELSE <<tolower(Head(s))>> \o lowcase(Tail(s))

substr(s, pos, n) ==
    LET last == IF pos + n > Len(s) THEN Len(s) ELSE pos + n
    IN  SubSeq(s, pos + 1, last)

ends_with(s, suffix) ==
    /\ Len(s) >= Len(suffix)
    /\ SubSeq(s, Len(s) - Len(suffix) + 1, Len(s)) = suffix

\* trim(): strips " \r\t\f\n\v" from both ends
trim(s) ==
    LET keep == {i \in 1..Len(s) : ~isspace(s[i])}
    IN  IF keep = {} THEN <<>>
        ELSE LET first == CHOOSE i \in keep : \A j \in keep : i <= j
                 last  == CHOOSE i \in keep : \A j \in keep : j <= i
             IN  SubSeq(s, first, last)

\* operator< of std::string: lexicographic on bytes
RECURSIVE StrLess(_, _)
StrLess(a, b) ==
    IF b = <<>> THEN FALSE
    ELSE IF a = <<>> THEN TRUE
    ELSE IF a[1] # b[1] THEN a[1] < b[1]
    ELSE StrLess(Tail(a), Tail(b))

\* The keys of a std::map<std::string, ...> in iteration order
RECURSIVE MapOrder(_)
MapOrder(keys) ==
    IF keys = {} THEN <<>>
    ELSE LET k == CHOOSE x \in keys : \A y \in keys : x = y \/ StrLess(x, y)
         IN  <<k>> \o MapOrder(keys \ {k})

\* std::getline over an istringstream: the lines of a text, split at LF
RECURSIVE GetLines(_)
GetLines(data) ==
    IF data = <<>> THEN <<>>
    ELSE LET nl == {i \in 1..Len(data) : data[i] = char_lf}
         IN  IF nl = {} THEN <<data>>
             ELSE LET p == CHOOSE i \in nl : \A j \in nl : i <= j
                  IN  <<SubSeq(data, 1, p - 1)>>
                          \o GetLines(SubSeq(data, p + 1, Len(data)))

\* ------------------------------------------------------------------------
\* State
\* ------------------------------------------------------------------------

VARIABLES
    autoexec_bat_utf8,      \* generated AUTOEXEC.BAT, UTF-8
    is_vfile_registered,    \* AUTOEXEC.BAT registered on Z:
    vfile_code_page,        \* code page of the registered binary
    autoexec_has_echo_off,  \* put ECHO OFF before the [autoexec] content
    autoexec_variables,     \* std::map name -> value
    autoexec_lines,         \* Location -> list of lines
    autoexec_module,        \* "none", "constructing", "constructed"
    vfile,                  \* Z:\AUTOEXEC.BAT in the virtual file system
    vfile_registrations,    \* number of VFILE_Register calls
    utf8_code_page,         \* get_utf8_code_page()
    shutdown_requested,
    first_shell,            \* a shell is running
    shell_env,              \* what SetEnv was last given, per name
    cmdline,                \* control->cmdline
    config,                 \* the configuration and the host directories
    last_call,              \* the public function called last, and what it invoked
    last_set                \* per variable, the value last asked for

vars == <<autoexec_bat_utf8, is_vfile_registered, vfile_code_page,
          autoexec_has_echo_off, autoexec_variables, autoexec_lines,
          autoexec_module, vfile, vfile_registrations, utf8_code_page,
          shutdown_requested, first_shell, shell_env, cmdline, config,
          last_call, last_set>>

composer == <<autoexec_has_echo_off, autoexec_variables, autoexec_lines>>
publisher == <<autoexec_bat_utf8, is_vfile_registered, vfile_code_page,
               vfile, vfile_registrations>>
environment == <<utf8_code_page, shutdown_requested, first_shell, cmdline,
                 config>>

NoFile == <<-1>>

\* ------------------------------------------------------------------------
\* create_autoexec_bat_utf8
\* ------------------------------------------------------------------------

push_new_line(out) == out \o <<char_cr, char_lf>>

push_string(out, line) ==
    IF line = <<>> THEN push_new_line(out)
    ELSE push_new_line(out \o line)

RECURSIVE push_lines(_, _)
push_lines(out, list_lines) ==
    IF list_lines = <<>> THEN out
    ELSE push_lines(push_string(out, Head(list_lines)), Tail(list_lines))

\* "@SET " + name + "=" + value, for the names in map order
SetLines ==
    LET names == MapOrder(DOMAIN autoexec_variables)
    IN  [i \in 1..Len(names) |->
            STR_SET \o names[i] \o STR_EQ \o autoexec_variables[names[i]]]

\* RenderHeader with a blank line pushed right after the banner
RenderHeader_BlankAfterBanner ==
    LET has_vars == DOMAIN autoexec_variables # {}
        s1 == IF autoexec_has_echo_off \/ has_vars
              THEN [out |-> push_new_line(push_string(<<>>, comment_generated)),
                    prints_generated |-> TRUE,
                    prints_config_section |-> FALSE]
              ELSE [out |-> <<>>,
                    prints_generated |-> FALSE,
                    prints_config_section |-> FALSE]
        o2 == IF autoexec_has_echo_off
              THEN push_string(s1.out, STR_ECHO_OFF)
              ELSE s1.out
        o3 == IF has_vars
              THEN push_lines(push_new_line(o2), SetLines)
              ELSE o2
        o4 == IF s1.prints_generated THEN push_new_line(o3) ELSE o3
    IN  [s1 EXCEPT !.out = o4]

\* Lines 115-136: 'ECHO OFF' and 'SET variable=value' if needed
RenderHeader ==
    LET has_vars == DOMAIN autoexec_variables # {}
        s1 == IF autoexec_has_echo_off \/ has_vars
              THEN [out |-> push_string(<<>>, comment_generated),
                    prints_generated |-> TRUE,
                    prints_config_section |-> FALSE]
              ELSE [out |-> <<>>,
                    prints_generated |-> FALSE,
                    prints_config_section |-> FALSE]
        o2 == IF autoexec_has_echo_off
              THEN push_string(push_new_line(s1.out), STR_ECHO_OFF)
              ELSE s1.out
        o3 == IF has_vars
              THEN push_lines(push_new_line(o2), SetLines)
              ELSE o2
        o4 == IF s1.prints_generated THEN push_new_line(o3) ELSE o3
    IN  [s1 EXCEPT !.out = o4]

\* RenderSection whose [autoexec] case leaves prints_generated set
RenderSection_KeepsGenerated(st, source) ==
    LET list_lines == autoexec_lines[source]
        s1 == IF source = ConfigFileAutoexec
              THEN IF ~st.prints_config_section
                   THEN [out |-> push_new_line(push_string(
                                    IF st.out # <<>> THEN push_new_line(st.out)
                                    ELSE st.out,
                                    comment_config_section)),
                         prints_generated |-> st.prints_generated,
                         prints_config_section |-> TRUE]
                   ELSE st
              ELSE IF ~st.prints_generated
                   THEN [out |-> push_new_line(push_string(
                                    IF st.out # <<>> THEN push_new_line(st.out)
                                    ELSE st.out,
                                    comment_generated)),
                         prints_generated |-> TRUE,
                         prints_config_section |-> FALSE]
                   ELSE st
    IN  IF list_lines = <<>> THEN st
        ELSE [s1 EXCEPT !.out = push_lines(s1.out, list_lines)]

\* Lines 140-175: one iteration of the loop over autoexec_lines
RenderSection(st, source) ==
    LET list_lines == autoexec_lines[source]
        s1 == IF source = ConfigFileAutoexec
              THEN IF ~st.prints_config_section
                   THEN [out |-> push_new_line(push_string(
                                    IF st.out # <<>> THEN push_new_line(st.out)
                                    ELSE st.out,
                                    comment_config_section)),
                         prints_generated |-> FALSE,
                         prints_config_section |-> TRUE]
                   ELSE st
              ELSE IF ~st.prints_generated
                   THEN [out |-> push_new_line(push_string(
                                    IF st.out # <<>> THEN push_new_line(st.out)
                                    ELSE st.out,
                                    comment_generated)),
                         prints_generated |-> TRUE,
                         prints_config_section |-> FALSE]
                   ELSE st
    IN  IF list_lines = <<>> THEN st
        ELSE [s1 EXCEPT !.out = push_lines(s1.out, list_lines)]

\* RenderWalk over the sections in the order generated, generated, [autoexec]
RenderWalk_GeneratedFirst ==
    LET h  == RenderHeader
        s1 == RenderSection(h, Location[1])
        s2 == RenderSection(s1, Location[3])
        s3 == RenderSection(s2, Location[2])
    IN  <<h, s1, s2, s3>>

\* The render states after the header and after each Location, in map order
RenderWalk ==
    LET h  == RenderHeader
        s1 == RenderSection(h, Location[1])
        s2 == RenderSection(s1, Location[2])
        s3 == RenderSection(s2, Location[3])
    IN  <<h, s1, s2, s3>>

create_autoexec_bat_utf8 == RenderWalk[4].out

\* ------------------------------------------------------------------------
\* External collaborators: the UTF-8 engine and the virtual file system
\* ------------------------------------------------------------------------

CodePages == {437, 850}

\* utf8_to_dos: ASCII is kept; a multi-byte UTF-8 sequence becomes one byte
\* of the code page, or the fallback '?' when the code page lacks the
\* character (U+00F8 is 0x9B in code page 850 and absent from code page 437).
\* The text is converted in halves cut between characters.
IsContinuation(byte) == byte >= 128 /\ byte < 192

utf8_char_to_dos(char_utf8, code_page) ==
    IF Len(char_utf8) = 1 /\ char_utf8[1] < 128 THEN char_utf8
    ELSE IF code_page = 850 /\ char_utf8 = <<195, 184>> THEN <<155>>
    ELSE <<63>>

RECURSIVE utf8_to_dos(_, _)
utf8_to_dos(input_utf8, code_page) ==
    LET n == Len(input_utf8)
        cuts == {m \in 1..(n - 1) : ~IsContinuation(input_utf8[m + 1])}
    IN  IF n = 0 THEN <<>>
        ELSE IF cuts = {} THEN utf8_char_to_dos(input_utf8, code_page)
        ELSE LET above == {m \in cuts : m >= n \div 2}
                 m == IF above # {}
                      THEN CHOOSE x \in above : \A y \in above : x <= y
                      ELSE CHOOSE x \in cuts : \A y \in cuts : y <= x
             IN  utf8_to_dos(SubSeq(input_utf8, 1, m), code_page)
                     \o utf8_to_dos(SubSeq(input_utf8, m + 1, n), code_page)

\* VFILE_Register creates the file; VFILE_Update replaces the data of an
\* existing file and does nothing when there is none
VFILE_Register(data) == data
VFILE_Update(data) == IF vfile = NoFile THEN NoFile ELSE data

\* ------------------------------------------------------------------------
\* create_autoexec_bat_dos
\* ------------------------------------------------------------------------

\* The count of registrations saturates above one
CountCall(n) == IF n < 2 THEN n + 1 ELSE n

\* A call that reaches neither the transcoder nor the virtual file system
Call(op) == [op |-> op, transcoded |-> FALSE, vfile_op |-> "none"]

\* create_autoexec_bat_dos that registers the file on every call
create_autoexec_bat_dos_AlwaysRegisters(input_utf8, code_page, op) ==
    LET autoexec_bat_bin == utf8_to_dos(input_utf8, code_page)
    IN  /\ vfile' = VFILE_Register(autoexec_bat_bin)
        /\ vfile_registrations' = CountCall(vfile_registrations)
        /\ is_vfile_registered' = TRUE
        /\ last_call' = [op |-> op, transcoded |-> TRUE,
                         vfile_op |-> "register"]
        /\ vfile_code_page' = code_page

\* Lines 180-202
create_autoexec_bat_dos(input_utf8, code_page, op) ==
    LET autoexec_bat_bin == utf8_to_dos(input_utf8, code_page)
    IN  /\ IF is_vfile_registered
           THEN /\ vfile' = VFILE_Update(autoexec_bat_bin)
                /\ vfile_registrations' = vfile_registrations
                /\ is_vfile_registered' = is_vfile_registered
                /\ last_call' = [op |-> op, transcoded |-> TRUE,
                                 vfile_op |-> "update"]
           ELSE /\ vfile' = VFILE_Register(autoexec_bat_bin)
                /\ vfile_registrations' = CountCall(vfile_registrations)
                /\ is_vfile_registered' = TRUE
                /\ last_call' = [op |-> op, transcoded |-> TRUE,
                                 vfile_op |-> "register"]
        /\ vfile_code_page' = code_page

\* ------------------------------------------------------------------------
\* AutoExecModule: the private methods the constructor calls
\* ------------------------------------------------------------------------

Pre == autoexec_lines[GeneratedBeforeAutoexec]
User == autoexec_lines[ConfigFileAutoexec]
Post == autoexec_lines[GeneratedAfterAutoexec]

TotalLines == Len(Pre) + Len(User) + Len(Post)

push_back(lines, source, line) ==
    [lines EXCEPT ![source] = Append(@, line)]

AddCommandBefore(line) ==
    /\ autoexec_module = "constructing"
    /\ TotalLines < MaxLines
    /\ autoexec_lines' = push_back(autoexec_lines, GeneratedBeforeAutoexec, line)
    /\ UNCHANGED <<autoexec_has_echo_off, autoexec_variables, autoexec_module,
                   publisher, environment, shell_env, last_call, last_set>>

AddCommandAfter(line) ==
    /\ autoexec_module = "constructing"
    /\ TotalLines < MaxLines
    /\ autoexec_lines' = push_back(autoexec_lines, GeneratedAfterAutoexec, line)
    /\ UNCHANGED <<autoexec_has_echo_off, autoexec_variables, autoexec_module,
                   publisher, environment, shell_env, last_call, last_set>>

AddAutoExecLine(line) ==
    /\ autoexec_module = "constructing"
    /\ TotalLines < MaxLines
    /\ autoexec_lines' = push_back(autoexec_lines, ConfigFileAutoexec, line)
    /\ UNCHANGED <<autoexec_has_echo_off, autoexec_variables, autoexec_module,
                   publisher, environment, shell_env, last_call, last_set>>

\* Lines 432-455
check_echo_off(line) ==
    IF line = <<>> THEN FALSE
    ELSE LET tmp == IF line[1] = 64 THEN substr(line, 1, Len(line)) ELSE line
         IN  IF Len(tmp) < 8 THEN FALSE
             ELSE LET low == lowcase(tmp)
                  IN  IF substr(low, 0, 4) # STR_echo \/ ~ends_with(low, STR_off)
                      THEN FALSE
                      ELSE LET mid == substr(low, 4, Len(low) - 7)
                           IN  \A i \in 1..Len(mid) : isspace(mid[i])

\* ConfigLoop that never clears is_first_line
RECURSIVE ConfigLoop_EveryLine(_, _, _)
ConfigLoop_EveryLine(st, input_lines, is_first_line) ==
    IF input_lines = <<>> THEN st
    ELSE LET line == trim(Head(input_lines))
         IN  IF is_first_line /\ check_echo_off(line)
             THEN ConfigLoop_EveryLine([st EXCEPT !.echo_off = TRUE],
                                       Tail(input_lines), is_first_line)
             ELSE ConfigLoop_EveryLine([st EXCEPT !.lines =
                                           push_back(@, ConfigFileAutoexec, line)],
                                       Tail(input_lines), is_first_line)

\* Lines 457-478: the loop over the lines of the section, as a fold over
\* [echo_off, lines]
RECURSIVE ConfigLoop(_, _, _)
ConfigLoop(st, input_lines, is_first_line) ==
    IF input_lines = <<>> THEN st
    ELSE LET line == trim(Head(input_lines))
         IN  IF is_first_line /\ check_echo_off(line)
             THEN ConfigLoop([st EXCEPT !.echo_off = TRUE],
                             Tail(input_lines), FALSE)
             ELSE ConfigLoop([st EXCEPT !.lines =
                                 push_back(@, ConfigFileAutoexec, line)],
                             Tail(input_lines), FALSE)

\* Lines 423-479, on [echo_off, lines]
ProcessConfigFileResult(st, data) ==
    IF data = <<>> THEN st
    ELSE ConfigLoop(st, GetLines(data), TRUE)

\* The text of a section: its lines, each but possibly the last ended by LF
RECURSIVE JoinLines(_, _)
JoinLines(lines, final_newline) ==
    IF lines = <<>> THEN <<>>
    ELSE IF Len(lines) = 1
    THEN Head(lines) \o (IF final_newline THEN <<char_lf>> ELSE <<>>)
    ELSE Head(lines) \o <<char_lf>> \o JoinLines(Tail(lines), final_newline)

\* Section_line::data
SectionData(section) == JoinLines(section.lines, section.final_newline)

ProcessConfigFile(section) ==
    LET data == SectionData(section)
        st == ProcessConfigFileResult(
                  [echo_off |-> autoexec_has_echo_off, lines |-> autoexec_lines],
                  data)
    IN  /\ autoexec_module = "constructing"
        /\ TotalLines + Len(section.lines) <= MaxLines
        /\ autoexec_has_echo_off' = st.echo_off
        /\ autoexec_lines' = st.lines
        /\ UNCHANGED <<autoexec_variables, autoexec_module, publisher,
                       environment, shell_env, last_call, last_set>>

\* ------------------------------------------------------------------------
\* AutoExecModule::AutoExecModule, on the constructor's [echo_off, lines]
\* ------------------------------------------------------------------------

\* "exit" and "\"exit\""
STR_exit == <<101, 120, 105, 116>>
STR_quoted_exit == <<34, 101, 120, 105, 116, 34>>
\* "@EXIT"
STR_EXIT == <<64, 69, 88, 73, 84>>
\* "@Z:\CONFIG.COM -securemode"
STR_SECUREMODE ==
    <<64, 90, 58, 92, 67, 79, 78, 70, 73, 71, 46, 67, 79, 77, 32, 45, 115,
      101, 99, 117, 114, 101, 109, 111, 100, 101>>
\* "@Z:\IMGMOUNT.COM D " and " -t iso"
STR_IMGMOUNT_D ==
    <<64, 90, 58, 92, 73, 77, 71, 77, 79, 85, 78, 84, 46, 67, 79, 77, 32,
      68, 32>>
STR_T_ISO == <<32, 45, 116, 32, 105, 115, 111>>
\* "@Z:\MOUNT.COM C " and "@C:"
STR_MOUNT_C ==
    <<64, 90, 58, 92, 77, 79, 85, 78, 84, 46, 67, 79, 77, 32, 67, 32>>
STR_C_COLON == <<64, 67, 58>>
\* "@Z:\MOUNT.COM " and "@SET PATH="
STR_MOUNT == <<64, 90, 58, 92, 77, 79, 85, 78, 84, 46, 67, 79, 77, 32>>
STR_SET_PATH == <<64, 83, 69, 84, 32, 80, 65, 84, 72, 61>>
\* "CALL " and "BOOT "
STR_CALL == <<67, 65, 76, 76, 32>>
STR_BOOT == <<66, 79, 79, 84, 32>>
\* "\"" and " "
quote == <<34>>
STR_SPACE == <<32>>
\* ".BAT", ".IMG", ".IMA", ".ISO", ".CUE"
EXT_BAT == <<46, 66, 65, 84>>
EXT_IMG == <<46, 73, 77, 71>>
EXT_IMA == <<46, 73, 77, 65>>
EXT_ISO == <<46, 73, 83, 79>>
EXT_CUE == <<46, 67, 85, 69>>

Before(st, line) ==
    [st EXCEPT !.lines = push_back(@, GeneratedBeforeAutoexec, line)]
After(st, line) ==
    [st EXCEPT !.lines = push_back(@, GeneratedAfterAutoexec, line)]

\* Lines 483-504, given what parse_drive_conf and simplify_path returned for
\* the drive directory
AutoMountDrive(st, drive) ==
    LET mounted == Before(st, STR_MOUNT \o drive.drive_letter \o STR_SPACE
                                  \o quote \o drive.drive_path \o quote
                                  \o drive.mount_args)
    IN  IF drive.path_val # <<>>
        THEN Before(mounted, STR_SET_PATH \o drive.path_val)
        ELSE mounted

\* Lines 235-239: the drive directories that exist, 'a' to 'z'
RECURSIVE AutoMountDrives(_, _)
AutoMountDrives(st, letters) ==
    IF letters = <<>> THEN st
    ELSE AutoMountDrives(AutoMountDrive(st, config.drives[Head(letters)]),
                         Tail(letters))

\* Lines 261-269: on Windows single quotes become double quotes
RECURSIVE ReplaceQuotes(_)
ReplaceQuotes(argument) ==
    IF argument = <<>> THEN <<>>
    ELSE <<IF Head(argument) = 39 THEN 34 ELSE Head(argument)>>
             \o ReplaceQuotes(Tail(argument))

\* CommandLineOptions that also inserts the exit call
RECURSIVE CommandLineOptions_KeepsExit(_, _)
CommandLineOptions_KeepsExit(r, arguments) ==
    IF arguments = <<>> THEN r
    ELSE LET argument == IF config.win32 THEN ReplaceQuotes(Head(arguments))
                         ELSE Head(arguments)
         IN  IF argument = STR_exit \/ argument = STR_quoted_exit
             THEN CommandLineOptions_KeepsExit(
                      [st |-> Before(r.st, argument), exit_call_exists |-> TRUE],
                      Tail(arguments))
             ELSE CommandLineOptions_KeepsExit(
                      [r EXCEPT !.st = Before(@, argument)], Tail(arguments))

\* Lines 259-279: the -c options, on [st, exit_call_exists]
RECURSIVE CommandLineOptions(_, _)
CommandLineOptions(r, arguments) ==
    IF arguments = <<>> THEN r
    ELSE LET argument == IF config.win32 THEN ReplaceQuotes(Head(arguments))
                         ELSE Head(arguments)
         IN  IF argument = STR_exit \/ argument = STR_quoted_exit
             THEN CommandLineOptions([r EXCEPT !.exit_call_exists = TRUE],
                                     Tail(arguments))
             ELSE CommandLineOptions([r EXCEPT !.st = Before(@, argument)],
                                     Tail(arguments))

\* Lines 293-315
maybe_add_command_secure(st, after) ==
    IF cmdline.securemode
    THEN IF after THEN After(st, STR_SECUREMODE) ELSE Before(st, STR_SECUREMODE)
    ELSE st

maybe_add_command_mount_d_cdrom(st, targets) ==
    IF targets = <<>> THEN st
    ELSE Before(st, STR_IMGMOUNT_D \o targets \o STR_T_ISO)

add_command_mount_c_directory(st, target) ==
    Before(Before(st, STR_MOUNT_C \o target), STR_C_COLON)

\* Lines 325-391: the positional arguments, on [st, found_dir_or_command,
\* cdrom_images]; is_directory is what the host file system answers
RECURSIVE FindCommands(_, _)
FindCommands(r, arguments) ==
    IF arguments = <<>> THEN r
    ELSE LET argument == Head(arguments)
             argument_ucase == upcase(argument)
             mounted == maybe_add_command_mount_d_cdrom(r.st, r.cdrom_images)
         IN  IF argument \in config.directories
             THEN [r EXCEPT !.st = maybe_add_command_secure(
                                       add_command_mount_c_directory(
                                           mounted, quote \o argument \o quote),
                                       FALSE),
                            !.found_dir_or_command = TRUE]
             ELSE IF ends_with(argument_ucase, EXT_BAT)
             THEN [r EXCEPT !.st = Before(maybe_add_command_secure(mounted, FALSE),
                                          STR_CALL \o argument),
                            !.found_dir_or_command = TRUE]
             ELSE IF ends_with(argument_ucase, EXT_IMG)
                     \/ ends_with(argument_ucase, EXT_IMA)
             THEN [r EXCEPT !.st = Before(mounted, STR_BOOT \o quote \o argument
                                                       \o quote),
                            !.found_dir_or_command = TRUE]
             ELSE IF ends_with(argument_ucase, EXT_ISO)
                     \/ ends_with(argument_ucase, EXT_CUE)
             THEN FindCommands(
                      [r EXCEPT !.cdrom_images =
                          (IF @ # <<>> THEN @ \o STR_SPACE ELSE @)
                              \o quote \o argument \o quote],
                      Tail(arguments))
             ELSE [r EXCEPT !.st = Before(maybe_add_command_secure(mounted, FALSE),
                                          argument),
                            !.found_dir_or_command = TRUE]

\* Lines 225-418: the constructor up to its call of AUTOEXEC_RegisterFile
Constructed(st0) ==
    LET automounted ==
            IF config.automount
            THEN AutoMountDrives(st0, MapOrder(DOMAIN config.drives))
            ELSE st0
        autoexec_is_allowed == ~cmdline.noautoexec
        should_join_autoexecs == config.join
        options == CommandLineOptions(
                       [st |-> automounted, exit_call_exists |-> FALSE],
                       cmdline.c)
        exit_arg_exists == cmdline.exit
        using_instant_launch_with_executable ==
            cmdline.instant_launch /\ cmdline.executable
        should_add_exit == options.exit_call_exists \/ exit_arg_exists
                               \/ using_instant_launch_with_executable
        commands == FindCommands(
                        [st |-> options.st, found_dir_or_command |-> FALSE,
                         cdrom_images |-> <<>>],
                        cmdline.commands)
        found_dir_or_command == commands.found_dir_or_command
        generated ==
            IF autoexec_is_allowed
            THEN IF should_join_autoexecs
                 THEN ProcessConfigFileResult(commands.st,
                                              SectionData(config.joined))
                 ELSE IF found_dir_or_command THEN commands.st
                 ELSE ProcessConfigFileResult(commands.st,
                                              SectionData(config.overwritten))
            ELSE commands.st
        sealed ==
            IF ~found_dir_or_command
            THEN maybe_add_command_secure(
                     maybe_add_command_mount_d_cdrom(generated,
                                                     commands.cdrom_images),
                     TRUE)
            ELSE generated
    IN  IF should_add_exit THEN After(sealed, STR_EXIT) ELSE sealed

\* ------------------------------------------------------------------------
\* The public functions
\* ------------------------------------------------------------------------

\* RegisterFile that converts the stored script without rendering it anew
RegisterFile_NoRender(op) ==
    /\ autoexec_bat_utf8' = autoexec_bat_utf8
    /\ create_autoexec_bat_dos(autoexec_bat_utf8, utf8_code_page, op)

\* Lines 573-577; the composer's next state is set by the caller
RegisterFile(op) ==
    /\ autoexec_bat_utf8' = create_autoexec_bat_utf8'
    /\ create_autoexec_bat_dos(autoexec_bat_utf8', utf8_code_page, op)

AUTOEXEC_RegisterFile ==
    /\ UNCHANGED <<composer, autoexec_module, environment, shell_env, last_set>>
    /\ RegisterFile("AUTOEXEC_RegisterFile")

\* Line 420: the constructor's last statement
ConstructorRegisterFile ==
    /\ autoexec_module = "constructing"
    /\ autoexec_module' = "constructed"
    /\ UNCHANGED <<composer, environment, shell_env, last_set>>
    /\ RegisterFile("AUTOEXEC_Init")

\* Lines 581-584 and 225-421: AUTOEXEC_Init constructs the module, once
AUTOEXEC_Init ==
    LET st == Constructed([echo_off |-> autoexec_has_echo_off,
                           lines |-> autoexec_lines])
    IN  /\ autoexec_module = "none"
        /\ autoexec_module' = "constructed"
        /\ autoexec_has_echo_off' = st.echo_off
        /\ autoexec_lines' = st.lines
        /\ UNCHANGED <<autoexec_variables, environment, shell_env, last_set>>
        /\ RegisterFile("AUTOEXEC_Init")

\* AUTOEXEC_NotifyNewCodePage without the shutdown check
AUTOEXEC_NotifyNewCodePage_NoShutdownCheck ==
    /\ IF ~is_vfile_registered
       THEN /\ last_call' = Call("AUTOEXEC_NotifyNewCodePage")
            /\ UNCHANGED <<is_vfile_registered, vfile_code_page, vfile,
                           vfile_registrations>>
       ELSE IF utf8_code_page = vfile_code_page
       THEN /\ last_call' = Call("AUTOEXEC_NotifyNewCodePage")
            /\ UNCHANGED <<is_vfile_registered, vfile_code_page, vfile,
                           vfile_registrations>>
       ELSE create_autoexec_bat_dos(autoexec_bat_utf8, utf8_code_page,
                                    "AUTOEXEC_NotifyNewCodePage")
    /\ UNCHANGED <<autoexec_bat_utf8, composer, autoexec_module, environment,
                   shell_env, last_set>>

\* AUTOEXEC_NotifyNewCodePage that renders the script anew
AUTOEXEC_NotifyNewCodePage_Rerenders ==
    /\ IF shutdown_requested \/ ~is_vfile_registered
       THEN /\ last_call' = Call("AUTOEXEC_NotifyNewCodePage")
            /\ UNCHANGED <<is_vfile_registered, vfile_code_page, vfile,
                           vfile_registrations>>
       ELSE IF utf8_code_page = vfile_code_page
       THEN /\ last_call' = Call("AUTOEXEC_NotifyNewCodePage")
            /\ UNCHANGED <<is_vfile_registered, vfile_code_page, vfile,
                           vfile_registrations>>
       ELSE create_autoexec_bat_dos(create_autoexec_bat_utf8, utf8_code_page,
                                    "AUTOEXEC_NotifyNewCodePage")
    /\ UNCHANGED <<autoexec_bat_utf8, composer, autoexec_module, environment,
                   shell_env, last_set>>

\* Lines 527-544
AUTOEXEC_NotifyNewCodePage ==
    /\ IF shutdown_requested \/ ~is_vfile_registered
       THEN /\ last_call' = Call("AUTOEXEC_NotifyNewCodePage")
            /\ UNCHANGED <<is_vfile_registered, vfile_code_page, vfile,
                           vfile_registrations>>
       ELSE IF utf8_code_page = vfile_code_page
       THEN /\ last_call' = Call("AUTOEXEC_NotifyNewCodePage")
            /\ UNCHANGED <<is_vfile_registered, vfile_code_page, vfile,
                           vfile_registrations>>
       ELSE create_autoexec_bat_dos(autoexec_bat_utf8, utf8_code_page,
                                    "AUTOEXEC_NotifyNewCodePage")
    /\ UNCHANGED <<autoexec_bat_utf8, composer, autoexec_module, environment,
                   shell_env, last_set>>

\* std::map::operator[] assignment and std::map::erase
MapPut(map, key, value) ==
    [k \in DOMAIN map \cup {key} |-> IF k = key THEN value ELSE map[k]]
MapErase(map, key) == [k \in DOMAIN map \ {key} |-> map[k]]

\* The name a request is about, whatever its letter case: "a", "A" -> "A";
\* "b", "B" -> "B"
CanonicalName(name) ==
    IF name \in {<<97>>, <<65>>} THEN <<65>>
    ELSE IF name \in {<<98>>, <<66>>} THEN <<66>>
    ELSE name

\* AUTOEXEC_SetVariable that stores the name as given
AUTOEXEC_SetVariable_NoUpcase(name, value) ==
    /\ shell_env' = IF first_shell THEN MapPut(shell_env, name, value)
                    ELSE shell_env
    /\ autoexec_variables' = IF value = <<>>
                             THEN MapErase(autoexec_variables, name)
                             ELSE MapPut(autoexec_variables, name, value)
    /\ last_call' = Call("AUTOEXEC_SetVariable")
    /\ last_set' = MapPut(last_set, CanonicalName(name),
                          [name |-> name, value |-> value])
    /\ UNCHANGED <<autoexec_has_echo_off, autoexec_lines, autoexec_module,
                   publisher, environment>>

\* Lines 546-571.  The names and values of the model are printable ASCII,
\* which the debug build's check lets through
AUTOEXEC_SetVariable(name, value) ==
    LET name_upcase == upcase(name)
    IN  /\ shell_env' = IF first_shell
                        THEN MapPut(shell_env, name_upcase, value)
                        ELSE shell_env
        /\ autoexec_variables' = IF value = <<>>
                                 THEN MapErase(autoexec_variables, name_upcase)
                                 ELSE MapPut(autoexec_variables, name_upcase,
                                             value)
        /\ last_call' = Call("AUTOEXEC_SetVariable")
        /\ last_set' = MapPut(last_set, CanonicalName(name),
                              [name |-> name, value |-> value])
        /\ UNCHANGED <<autoexec_has_echo_off, autoexec_lines, autoexec_module,
                       publisher, environment>>

\* ------------------------------------------------------------------------
\* The emulator around the module
\* ------------------------------------------------------------------------

\* DOS loads another code page
SetCodePage(code_page) ==
    /\ code_page # utf8_code_page
    /\ utf8_code_page' = code_page
    /\ UNCHANGED <<composer, publisher, autoexec_module, shutdown_requested,
                   first_shell, cmdline, config, shell_env, last_call, last_set>>

RequestShutdown ==
    /\ ~shutdown_requested
    /\ shutdown_requested' = TRUE
    /\ UNCHANGED <<composer, publisher, autoexec_module, utf8_code_page,
                   first_shell, cmdline, config, shell_env, last_call, last_set>>

\* The first shell starts
StartShell ==
    /\ ~first_shell
    /\ first_shell' = TRUE
    /\ UNCHANGED <<composer, publisher, autoexec_module, utf8_code_page,
                   shutdown_requested, cmdline, config, shell_env, last_call,
                   last_set>>

\* ------------------------------------------------------------------------
\* Inputs
\* ------------------------------------------------------------------------

\* "", "C:", "DIR"
LineTexts == {<<>>, <<67, 58>>, <<68, 73, 82>>}

\* Lines of an [autoexec] section:
\* "@echo off", "echo offX", "DIR", " ECHO \t OFF ", "@echooff", ""
RawLines ==
    {<<64, 101, 99, 104, 111, 32, 111, 102, 102>>,
     <<101, 99, 104, 111, 32, 111, 102, 102, 88>>,
     <<68, 73, 82>>,
     <<32, 69, 67, 72, 79, 32, 9, 32, 79, 70, 70, 32>>,
     <<64, 101, 99, 104, 111, 111, 102, 102>>,
     <<>>}

SeqsUpTo(S, n) == UNION {[1..k -> S] : k \in 0..n}

\* A text ends with LF or with a non-empty last line
SectionsOf(line_lists) ==
    {c \in [lines : line_lists, final_newline : BOOLEAN] :
        \/ c.final_newline /\ c.lines # <<>>
        \/ ~c.final_newline /\ (c.lines = <<>> \/ c.lines[Len(c.lines)] # <<>>)}

SectionInputs == SectionsOf(SeqsUpTo(RawLines, MaxRawLines))

EmptySection == [lines |-> <<>>, final_newline |-> FALSE]

\* "@echo off" LF, and "DIR" LF "@echo off" LF
ComposerSections ==
    {[lines |-> << <<64, 101, 99, 104, 111, 32, 111, 102, 102>> >>,
      final_newline |-> TRUE],
     [lines |-> << <<68, 73, 82>>,
                   <<64, 101, 99, 104, 111, 32, 111, 102, 102>> >>,
      final_newline |-> TRUE]}

\* "A" and "B"
VarA == <<65>>
VarB == <<66>>
\* "1", "2"
Val1 == <<49>>
Val2 == <<50>>

Mapping(names, value) == [n \in names |-> value]
NoVariables == Mapping({}, Val1)

\* Mappings AUTOEXEC_SetVariable calls made before the module is constructed
\* can have left
InitialVariables ==
    {NoVariables, Mapping({VarA}, Val1), Mapping({VarA, VarB}, Val2)}

EmptyLines == [l \in {GeneratedBeforeAutoexec, ConfigFileAutoexec,
                      GeneratedAfterAutoexec} |-> <<>>]

NoCommandLine ==
    [securemode |-> FALSE, noautoexec |-> FALSE, c |-> <<>>, exit |-> FALSE,
     instant_launch |-> FALSE, executable |-> FALSE, commands |-> <<>>]

\* drives/c exists: what parse_drive_conf and simplify_path give for it
\* ("C", no mount arguments, path "Z:\", "drives/c")
DriveC ==
    [drive_letter |-> <<67>>, mount_args |-> <<>>, path_val |-> <<90, 58, 92>>,
     drive_path |-> <<100, 114, 105, 118, 101, 115, 47, 99>>]
Drives == [letter \in {<<99>>} |-> DriveC]

\* "GAMES" is a directory of the host
HostDirectories == {<<71, 65, 77, 69, 83>>}

DefaultConfig ==
    [automount |-> FALSE, drives |-> Drives, directories |-> HostDirectories,
     join |-> TRUE, joined |-> EmptySection, overwritten |-> EmptySection,
     win32 |-> FALSE]

\* -c arguments: "exit", "\"exit\"", "'exit'", "DIR"
CArguments ==
    {<<101, 120, 105, 116>>, <<34, 101, 120, 105, 116, 34>>,
     <<39, 101, 120, 105, 116, 39>>, <<68, 73, 82>>}

\* Positional arguments: none; "GAMES"; "CD.ISO" "run.bat"
PositionalArguments ==
    {<<>>,
     << <<71, 65, 77, 69, 83>> >>,
     << <<67, 68, 46, 73, 83, 79>>, <<114, 117, 110, 46, 98, 97, 116>> >>}

\* The switches: none; -securemode; -noautoexec; -exit; --instant-launch
\* without and with an executable to launch
Switches ==
    {[securemode |-> s, noautoexec |-> n, exit |-> e, instant_launch |-> i,
      executable |-> x] :
        <<s, n, e, i, x>> \in {<<FALSE, FALSE, FALSE, FALSE, FALSE>>,
                               <<TRUE, FALSE, FALSE, FALSE, FALSE>>,
                               <<FALSE, TRUE, FALSE, FALSE, FALSE>>,
                               <<FALSE, FALSE, TRUE, FALSE, FALSE>>,
                               <<FALSE, FALSE, FALSE, TRUE, FALSE>>,
                               <<TRUE, FALSE, FALSE, TRUE, TRUE>>}}

CommandLines ==
    {[securemode |-> sw.securemode, noautoexec |-> sw.noautoexec, c |-> c,
      exit |-> sw.exit, instant_launch |-> sw.instant_launch,
      executable |-> sw.executable, commands |-> commands] :
        sw \in Switches, c \in SeqsUpTo(CArguments, MaxCArgs),
        commands \in PositionalArguments}

\* [autoexec] of the primary configuration: "@echo off" LF "DIR" LF; of the
\* last configuration: "VER" LF
JoinedSection ==
    [lines |-> << <<64, 101, 99, 104, 111, 32, 111, 102, 102>>,
                  <<68, 73, 82>> >>,
     final_newline |-> TRUE]
OverwrittenSection ==
    [lines |-> << <<86, 69, 82>> >>, final_newline |-> TRUE]

Configs ==
    {[DefaultConfig EXCEPT !.automount = a, !.join = a, !.win32 = a,
                           !.joined = JoinedSection,
                           !.overwritten = OverwrittenSection] :
        a \in BOOLEAN}

\* [autoexec] with a line outside ASCII: "@echo off" LF U+00F8 LF
PublishSection ==
    [lines |-> << <<64, 101, 99, 104, 111, 32, 111, 102, 102>>,
                  <<195, 184>> >>,
     final_newline |-> TRUE]

PublishConfigs ==
    {DefaultConfig, [DefaultConfig EXCEPT !.joined = PublishSection]}

\* "a", "A", "B"
Names == {<<97>>, <<65>>, <<66>>}
\* "", "1", "2"
Values == {<<>>, <<49>>, <<50>>}
\* "a", "A"
PublishNames == {<<97>>, <<65>>}

\* ------------------------------------------------------------------------
\* The state before AUTOEXEC_Init (lines 50-73)
\* ------------------------------------------------------------------------

\* What the callers of AUTOEXEC_SetVariable asked for, when they asked for
\* exactly these variables
Requested(variables) ==
    [n \in DOMAIN variables |-> [name |-> n, value |-> variables[n]]]

Statics ==
    /\ autoexec_bat_utf8 = <<>>
    /\ is_vfile_registered = FALSE
    /\ vfile_code_page = 0
    /\ autoexec_has_echo_off = FALSE
    /\ autoexec_lines = EmptyLines
    /\ vfile = NoFile
    /\ vfile_registrations = 0
    /\ utf8_code_page = 437
    /\ shutdown_requested = FALSE
    /\ first_shell = FALSE
    /\ shell_env = NoVariables
    /\ last_call = Call("none")

\* ------------------------------------------------------------------------
\* Spec: the emulator starts with a command line and a configuration,
\* constructs the module, and DOS changes the code page
\* ------------------------------------------------------------------------

Init ==
    /\ Statics
    /\ autoexec_variables = NoVariables
    /\ last_set = Requested(autoexec_variables)
    /\ autoexec_module = "none"
    /\ cmdline \in CommandLines
    /\ config \in Configs

Next ==
    \/ AUTOEXEC_Init
    \/ AUTOEXEC_NotifyNewCodePage
    \/ \E code_page \in CodePages : SetCodePage(code_page)

Spec == Init /\ [][Next]_vars

\* ------------------------------------------------------------------------
\* SpecPublish: the public functions called in any order around the
\* construction, the code page changing and the emulator shutting down
\* ------------------------------------------------------------------------

InitPublish ==
    /\ Statics
    /\ autoexec_variables = NoVariables
    /\ last_set = Requested(autoexec_variables)
    /\ autoexec_module = "none"
    /\ cmdline = NoCommandLine
    /\ config \in PublishConfigs

NextPublish ==
    \/ \E name \in PublishNames, value \in Values :
           AUTOEXEC_SetVariable(name, value)
    \/ AUTOEXEC_Init
    \/ AUTOEXEC_RegisterFile
    \/ AUTOEXEC_NotifyNewCodePage
    \/ \E code_page \in CodePages : SetCodePage(code_page)
    \/ RequestShutdown

SpecPublish == InitPublish /\ [][NextPublish]_vars

\* ------------------------------------------------------------------------
\* SpecVariables: the other modules setting and clearing variables, before
\* and after the shell starts
\* ------------------------------------------------------------------------

InitVariables ==
    /\ Statics
    /\ autoexec_variables = NoVariables
    /\ last_set = Requested(autoexec_variables)
    /\ autoexec_module = "none"
    /\ cmdline = NoCommandLine
    /\ config = DefaultConfig

NextVariables ==
    \/ \E name \in Names, value \in Values : AUTOEXEC_SetVariable(name, value)
    \/ StartShell
    \/ AUTOEXEC_RegisterFile

SpecVariables == InitVariables /\ [][NextVariables]_vars

\* ------------------------------------------------------------------------
\* SpecComposer: the constructor's body as calls of its private methods in
\* any order, ended by its call of AUTOEXEC_RegisterFile
\* ------------------------------------------------------------------------

InitComposer ==
    /\ Statics
    /\ autoexec_variables \in InitialVariables
    /\ last_set = Requested(autoexec_variables)
    /\ autoexec_module = "constructing"
    /\ cmdline = NoCommandLine
    /\ config = DefaultConfig

NextComposer ==
    \/ \E line \in LineTexts : AddCommandBefore(line)
    \/ \E line \in LineTexts : AddCommandAfter(line)
    \/ \E line \in LineTexts : AddAutoExecLine(line)
    \/ \E section \in ComposerSections : ProcessConfigFile(section)
    \/ ConstructorRegisterFile

SpecComposer == InitComposer /\ [][NextComposer]_vars

\* ------------------------------------------------------------------------
\* SpecConfigFile: the constructor reading the [autoexec] section
\* ------------------------------------------------------------------------

InitConfigFile ==
    /\ Statics
    /\ autoexec_variables = NoVariables
    /\ last_set = Requested(autoexec_variables)
    /\ autoexec_module = "constructing"
    /\ cmdline = NoCommandLine
    /\ config \in {[DefaultConfig EXCEPT !.joined = c] : c \in SectionInputs}

NextConfigFile ==
    \/ ProcessConfigFile(config.joined)
    \/ ConstructorRegisterFile

SpecConfigFile == InitConfigFile /\ [][NextConfigFile]_vars

\* ------------------------------------------------------------------------
\* Reading a rendered script
\* ------------------------------------------------------------------------

IsPrefix(p, s) == Len(p) <= Len(s) /\ SubSeq(s, 1, Len(p)) = p

\* The lines of a text whose lines end with CR LF; a remainder without the
\* terminator is kept as a last line
RECURSIVE SplitLines(_)
SplitLines(text) ==
    IF text = <<>> THEN <<>>
    ELSE LET ends == {i \in 1..(Len(text) - 1) :
                         text[i] = char_cr /\ text[i + 1] = char_lf}
         IN  IF ends = {} THEN <<text>>
             ELSE LET p == CHOOSE i \in ends : \A j \in ends : i <= j
                  IN  <<SubSeq(text, 1, p - 1)>>
                          \o SplitLines(SubSeq(text, p + 2, Len(text)))

Terminated(text) ==
    text = <<>> \/ (Len(text) >= 2 /\ SubSeq(text, Len(text) - 1, Len(text))
                                          = <<char_cr, char_lf>>)

RECURSIVE JoinCRLF(_)
JoinCRLF(lines) ==
    IF lines = <<>> THEN <<>>
    ELSE Head(lines) \o <<char_cr, char_lf>> \o JoinCRLF(Tail(lines))

Count(lines, l) == Cardinality({i \in 1..Len(lines) : lines[i] = l})

Published == autoexec_module = "constructed"
ScriptLines == SplitLines(autoexec_bat_utf8)
HasHeader == autoexec_has_echo_off \/ DOMAIN autoexec_variables # {}

\* A line the renderer adds by itself: blank, banner, @ECHO OFF, @SET ...
Structural(l) ==
    \/ l = <<>>
    \/ l = comment_generated
    \/ l = comment_config_section
    \/ l = STR_ECHO_OFF
    \/ IsPrefix(STR_SET, l)

\* ------------------------------------------------------------------------
\* C1
\* ------------------------------------------------------------------------

\* C1: whatever the order of the AddCommandBefore, AddCommandAfter and
\* AddAutoExecLine calls, the rendered script holds the three buffers as
\* three blocks, generated-before, then [autoexec], then generated-after,
\* each block the buffer's lines in the order appended, and every other line
\* of the script is one the renderer added (nothing lost, nothing repeated).
C1_BuffersRenderInOriginOrder ==
    Published =>
        LET out == ScriptLines
            n == Len(out)
            p3 == n - Len(Post) + 1
        IN  /\ Terminated(autoexec_bat_utf8)
            /\ p3 >= 1
            /\ \E p1 \in 1..(n + 1), p2 \in 1..(n + 1) :
                /\ p1 + Len(Pre) <= p2
                /\ p2 + Len(User) <= p3
                /\ SubSeq(out, p1, p1 + Len(Pre) - 1) = Pre
                /\ SubSeq(out, p2, p2 + Len(User) - 1) = User
                /\ SubSeq(out, p3, n) = Post
                /\ \A i \in (1..(p1 - 1)) \cup ((p1 + Len(Pre))..(p2 - 1))
                              \cup ((p2 + Len(User))..(p3 - 1)) :
                       Structural(out[i])

C1_Witness ==
    /\ Published
    /\ Pre # <<>> /\ User # <<>> /\ Post # <<>>
    /\ Pre[1] # <<>> /\ User[1] # <<>> /\ Post[1] # <<>>
    /\ Pre[1] # Post[1]

\* ------------------------------------------------------------------------
\* C6
\* ------------------------------------------------------------------------

\* The names of the mapping in ascending byte order
SortedNames ==
    LET names == DOMAIN autoexec_variables
        n == Cardinality(names)
    IN  CHOOSE s \in [1..n -> names] :
            \A i, j \in 1..n : i < j => StrLess(s[i], s[j])

SetLinesOf(names) ==
    [i \in 1..Len(names) |->
        STR_SET \o names[i] \o STR_EQ \o autoexec_variables[names[i]]]

\* The header as the code emits it: the banner; a blank line and @ECHO OFF;
\* a blank line and the @SET lines; a closing blank line
HeaderLines ==
    LET has_vars == DOMAIN autoexec_variables # {}
    IN  (IF HasHeader THEN <<comment_generated>> ELSE <<>>)
            \o (IF autoexec_has_echo_off THEN <<<<>>, STR_ECHO_OFF>> ELSE <<>>)
            \o (IF has_vars THEN <<<<>>>> \o SetLinesOf(SortedNames) ELSE <<>>)
            \o (IF HasHeader THEN <<<<>>>> ELSE <<>>)

\* The header as C6 words it: the banner and a blank line; @ECHO OFF; a blank
\* line and the @SET lines; a closing blank line
HeaderLinesAsClaimed ==
    LET has_vars == DOMAIN autoexec_variables # {}
    IN  (IF HasHeader THEN <<comment_generated, <<>>>> ELSE <<>>)
            \o (IF autoexec_has_echo_off THEN <<STR_ECHO_OFF>> ELSE <<>>)
            \o (IF has_vars THEN <<<<>>>> \o SetLinesOf(SortedNames) ELSE <<>>)
            \o (IF HasHeader THEN <<<<>>>> ELSE <<>>)

HeaderIs(lines) ==
    LET h == JoinCRLF(lines)
        rest == SplitLines(SubSeq(autoexec_bat_utf8, Len(h) + 1,
                                  Len(autoexec_bat_utf8)))
    IN  /\ IsPrefix(h, autoexec_bat_utf8)
        /\ TotalLines = 0 => autoexec_bat_utf8 = h
        /\ (TotalLines > 0 /\ h # <<>>) =>
               rest[1] = (IF Pre # <<>> THEN Pre[1]
                          ELSE IF User # <<>> THEN <<>>
                          ELSE Post[1])

\* C6 (as amended): the rendered script starts with the banner, if echo-off
\* is set or there are variables; then a blank line and @ECHO OFF, if
\* echo-off is set; then a blank line and one @SET NAME=VALUE line per
\* variable in ascending name order, if there are variables; then one blank
\* line, if any of these was emitted; every line ended by CR LF.  With
\* variables but no echo-off a single blank line stands between the banner
\* and the first @SET line.
C6_HeaderAsEmitted == Published => HeaderIs(HeaderLines)

\* C6 as stated: a blank line follows the banner whether or not @ECHO OFF
\* does.
C6_HeaderAsClaimed == Published => HeaderIs(HeaderLinesAsClaimed)

C6_Witness ==
    /\ Published
    /\ ~autoexec_has_echo_off
    /\ DOMAIN autoexec_variables = {VarA, VarB}
    /\ ScriptLines[3] = STR_SET \o VarA \o STR_EQ \o Val2

\* ------------------------------------------------------------------------
\* C9
\* ------------------------------------------------------------------------

IsBanner(l) == l = comment_generated \/ l = comment_config_section

\* C9: the [autoexec] banner is in the script once if the [autoexec] buffer
\* has lines and never otherwise; the generated banner is there once for the
\* header and the generated-before lines together, and once more for the
\* generated-after lines exactly when [autoexec] lines (or nothing at all)
\* came before them; every banner is followed by a blank line and, unless it
\* is the first line of the script, preceded by one; and at no point of the
\* walk are both contexts current.
C9_BannerOnContextSwitch ==
    Published =>
        LET out == ScriptLines
            first_generated == HasHeader \/ Pre # <<>>
        IN  /\ Count(out, comment_config_section)
                   = (IF User # <<>> THEN 1 ELSE 0)
            /\ Count(out, comment_generated)
                   = (IF first_generated THEN 1 ELSE 0)
                     + (IF Post # <<>> /\ (User # <<>> \/ ~first_generated)
                        THEN 1 ELSE 0)
            /\ \A i \in 1..Len(out) :
                   IsBanner(out[i]) =>
                       /\ i < Len(out) /\ out[i + 1] = <<>>
                       /\ i > 1 => out[i - 1] = <<>>
            /\ (Pre # <<>> /\ ~HasHeader) => out[1] = comment_generated
            /\ \A k \in 1..Len(RenderWalk) :
                   ~(RenderWalk[k].prints_generated
                     /\ RenderWalk[k].prints_config_section)

C9_Witness ==
    /\ Published
    /\ HasHeader
    /\ Pre # <<>> /\ User # <<>> /\ Post # <<>>
    /\ Count(ScriptLines, comment_generated) = 2
    /\ Count(ScriptLines, comment_config_section) = 1

\* ------------------------------------------------------------------------
\* C8
\* ------------------------------------------------------------------------

\* The pattern of C8 on a trimmed line: an optional '@', "echo" in any case,
\* k >= 1 whitespace characters, "off" in any case, and nothing more
EchoOffPattern(line) ==
    LET body == IF line # <<>> /\ line[1] = 64 THEN Tail(line) ELSE line
    IN  \E k \in 1..Len(body) :
            /\ Len(body) = 4 + k + 3
            /\ lowcase(SubSeq(body, 1, 4)) = STR_echo
            /\ \A i \in 5..(4 + k) : isspace(body[i])
            /\ lowcase(SubSeq(body, 5 + k, Len(body))) = STR_off

RECURSIVE TrimAll(_)
TrimAll(lines) ==
    IF lines = <<>> THEN <<>> ELSE <<trim(Head(lines))>> \o TrimAll(Tail(lines))

ConfigFileEffect(section) ==
    LET trimmed == TrimAll(section.lines)
        first_matches == trimmed # <<>> /\ EchoOffPattern(trimmed[1])
        added == IF first_matches THEN Tail(trimmed) ELSE trimmed
    IN  IF SectionData(section) = <<>>
        THEN UNCHANGED <<autoexec_has_echo_off, autoexec_lines>>
        ELSE /\ autoexec_has_echo_off' = (autoexec_has_echo_off \/ first_matches)
             /\ autoexec_lines' =
                    [autoexec_lines EXCEPT ![ConfigFileAutoexec] = @ \o added]

\* C8: ProcessConfigFile looks for the echo-off pattern in the first line of
\* the text only.  A matching first line sets the echo-off flag and is not
\* added; every other line, a later line that matches and a first line that
\* does not included, is appended trimmed, in order, to the [autoexec]
\* buffer and leaves the flag alone; an empty text changes nothing.
C8_OnlyFirstLineChecked ==
    [][ProcessConfigFile(config.joined) => ConfigFileEffect(config.joined)]_vars

C8_Witness ==
    /\ autoexec_has_echo_off
    /\ EchoOffPattern(trim(config.joined.lines[1]))
    /\ \E i \in 1..Len(User) : EchoOffPattern(User[i])

\* ------------------------------------------------------------------------
\* C2
\* ------------------------------------------------------------------------

RenderingCalls == {"AUTOEXEC_RegisterFile", "AUTOEXEC_Init"}

\* C2 as stated: once the file is published, the stored script is the render
\* of the current echo-off flag, variables and buffers, whatever calls of
\* AUTOEXEC_SetVariable, AUTOEXEC_RegisterFile and AUTOEXEC_NotifyNewCodePage
\* came since.
C2_AsClaimed ==
    is_vfile_registered => autoexec_bat_utf8 = create_autoexec_bat_utf8

\* C2: the stored script is the render of the current echo-off flag,
\* variables and buffers when the last call was AUTOEXEC_RegisterFile or the
\* construction; AUTOEXEC_SetVariable and AUTOEXEC_NotifyNewCodePage leave
\* the stored script as it is, so it lags behind a changed variable mapping
\* until AUTOEXEC_RegisterFile is called.
C2_RenderedByRegisterFileOnly ==
    /\ [](last_call.op \in RenderingCalls
              => autoexec_bat_utf8 = create_autoexec_bat_utf8)
    /\ [][last_call'.op \notin RenderingCalls
              => autoexec_bat_utf8' = autoexec_bat_utf8]_vars

C2_Witness ==
    /\ is_vfile_registered
    /\ last_call.op = "AUTOEXEC_SetVariable"
    /\ autoexec_bat_utf8 # create_autoexec_bat_utf8

\* ------------------------------------------------------------------------
\* C3, C4
\* ------------------------------------------------------------------------

\* A step that is a call of AUTOEXEC_NotifyNewCodePage
NotifyStep ==
    /\ last_call'.op = "AUTOEXEC_NotifyNewCodePage"
    /\ UNCHANGED environment

NothingToRefresh ==
    \/ ~is_vfile_registered
    \/ shutdown_requested
    \/ utf8_code_page = vfile_code_page

\* C3: AUTOEXEC_NotifyNewCodePage does nothing when the file was never
\* published, when the shutdown is requested, or when the code page is the
\* one the file was made for: the converter and the virtual file system are
\* not called, and the file's bytes, the cached code page, the registered
\* flag and the stored script stay as they are.
C3_NotifyDoesNothing ==
    [][NotifyStep /\ NothingToRefresh
           => /\ ~last_call'.transcoded
              /\ last_call'.vfile_op = "none"
              /\ UNCHANGED <<vfile, vfile_registrations, vfile_code_page,
                             is_vfile_registered, autoexec_bat_utf8>>]_vars

C3_Witness ==
    /\ is_vfile_registered
    /\ shutdown_requested
    /\ utf8_code_page # vfile_code_page
    /\ last_call = Call("AUTOEXEC_NotifyNewCodePage")

\* C4: with the file published, no shutdown requested and a code page other
\* than the cached one, AUTOEXEC_NotifyNewCodePage publishes the stored
\* script converted to the new code page and caches that code page; it
\* renders nothing, so the stored script, the echo-off flag, the variables
\* and the buffers stay as they are.  Whenever the file is published its
\* bytes are the stored script converted to the cached code page.
C4_NotifyConvertsStoredScript ==
    /\ [](is_vfile_registered
              => vfile = utf8_to_dos(autoexec_bat_utf8, vfile_code_page))
    /\ [][NotifyStep /\ ~NothingToRefresh
              => /\ last_call'.transcoded
                 /\ vfile' = utf8_to_dos(autoexec_bat_utf8, utf8_code_page)
                 /\ vfile_code_page' = utf8_code_page
                 /\ UNCHANGED <<autoexec_bat_utf8, composer>>]_vars

C4_Witness ==
    /\ last_call.op = "AUTOEXEC_NotifyNewCodePage"
    /\ last_call.transcoded
    /\ vfile_code_page = 850
    /\ autoexec_bat_utf8 # create_autoexec_bat_utf8
    /\ vfile # utf8_to_dos(create_autoexec_bat_utf8, vfile_code_page)
    /\ vfile # utf8_to_dos(autoexec_bat_utf8, 437)

\* ------------------------------------------------------------------------
\* C5
\* ------------------------------------------------------------------------

\* C5: the file is registered once, by the first publish; a later publish
\* updates it, no update comes before the registration, and the registered
\* flag, once set, stays set.
C5_RegisteredOnce ==
    /\ [](/\ vfile_registrations <= 1
          /\ is_vfile_registered <=> vfile_registrations = 1
          /\ is_vfile_registered <=> vfile # NoFile
          /\ last_call.vfile_op # "none" => is_vfile_registered)
    /\ [][/\ is_vfile_registered => is_vfile_registered'
          /\ vfile_registrations' # vfile_registrations
                 => ~is_vfile_registered /\ last_call'.vfile_op = "register"
          /\ last_call'.vfile_op = "update" /\ last_call' # last_call
                 => is_vfile_registered]_vars

C5_Witness ==
    /\ is_vfile_registered
    /\ vfile_registrations = 1
    /\ last_call.op = "AUTOEXEC_NotifyNewCodePage"
    /\ last_call.vfile_op = "update"

\* ------------------------------------------------------------------------
\* C7
\* ------------------------------------------------------------------------

IsUppercase(name) == \A i \in 1..Len(name) : name[i] \notin 97..122

\* C7: the mapping has the entry (N, V) exactly when the latest
\* AUTOEXEC_SetVariable call for a name that is N in upper case gave the
\* non-empty value V.  Stored names are upper case, names that differ in
\* letter case share one entry, no stored value is empty, and a call with
\* the empty value removes the entry, changing nothing when there is none.
C7_VariableMapping ==
    /\ [](/\ DOMAIN autoexec_variables
                 = {N \in DOMAIN last_set : last_set[N].value # <<>>}
          /\ \A N \in DOMAIN autoexec_variables :
                 /\ autoexec_variables[N] = last_set[N].value
                 /\ autoexec_variables[N] # <<>>
                 /\ IsUppercase(N)
                 /\ \A M \in DOMAIN autoexec_variables :
                        CanonicalName(M) = CanonicalName(N) => M = N)
    /\ [][\A name \in Names :
              AUTOEXEC_SetVariable(name, <<>>)
                  => /\ \A N \in DOMAIN autoexec_variables' :
                            CanonicalName(N) # CanonicalName(name)
                     /\ (\A N \in DOMAIN autoexec_variables :
                             CanonicalName(N) # CanonicalName(name))
                            => autoexec_variables' = autoexec_variables]_vars

C7_Witness ==
    /\ <<65>> \in DOMAIN autoexec_variables
    /\ <<65>> \in DOMAIN last_set /\ last_set[<<65>>].name = <<97>>
    /\ <<66>> \in DOMAIN last_set /\ last_set[<<66>>].value = <<>>
    /\ <<66>> \notin DOMAIN autoexec_variables

\* ------------------------------------------------------------------------
\* C10
\* ------------------------------------------------------------------------

\* The -c argument as line 274 compares it: on Windows 'exit' has become
\* "exit"
IsExitArgument(argument) ==
    \/ argument = STR_exit
    \/ argument = STR_quoted_exit
    \/ config.win32 /\ argument = <<39, 101, 120, 105, 116, 39>>

ExitRequested ==
    \/ \E i \in 1..Len(cmdline.c) : IsExitArgument(cmdline.c[i])
    \/ cmdline.exit
    \/ cmdline.instant_launch /\ cmdline.executable

\* C10: the construction never appends a -c argument that is exit or "exit"
\* to the generated-before buffer.  With an exit request (such an argument,
\* -exit, or instant launch with an executable) "@EXIT" is the last line of
\* the generated-after buffer and the last line of the published script,
\* after every [autoexec] line and every other generated line; without one
\* the construction adds no "@EXIT".
C10_ExitGoesLast ==
    Published =>
        /\ \A i \in 1..Len(Pre) : Pre[i] \notin {STR_exit, STR_quoted_exit}
        /\ Count(Pre, STR_EXIT) = 0 /\ Count(User, STR_EXIT) = 0
        /\ IF ExitRequested
           THEN /\ Post # <<>> /\ Post[Len(Post)] = STR_EXIT
                /\ Count(Post, STR_EXIT) = 1
                /\ ScriptLines # <<>>
                /\ ScriptLines[Len(ScriptLines)] = STR_EXIT
                /\ Count(ScriptLines, STR_EXIT) = 1
           ELSE /\ Count(Post, STR_EXIT) = 0
                /\ Count(ScriptLines, STR_EXIT) = 0

C10_Witness ==
    /\ Published
    /\ \E i \in 1..Len(cmdline.c) : cmdline.c[i] = STR_exit
    /\ \E i \in 1..Len(cmdline.c) : cmdline.c[i] # STR_exit
    /\ Pre # <<>> /\ User # <<>>
    /\ Len(Post) = 2 /\ Post[2] = STR_EXIT

====
